---- MODULE Spec2Model ----
(***************************************************************************)
(* Polish Trainer: the exercise card (ExerciseCard.tsx), the session       *)
(* orchestrator (App.tsx), the random selector (pickRandom.ts) and the     *)
(* answer matcher (checkAnswer).                                           *)
(*                                                                         *)
(* A string is a sequence of one-character strings.  One action is one     *)
(* browser task: a DOM event with every React handler it reaches, the      *)
(* batched state updates, the re-render, the passive effect that the       *)
(* render triggers and the re-render that the effect's updates cause.      *)
(* The renders committed by the task are recorded in `rendered`.           *)
(*                                                                         *)
(* Spec is the card under user input and the focus timeout: the frame      *)
(* callbacks of the confetti runs stay scheduled, and a check that would   *)
(* schedule more than MaxRuns of them is not taken.  SpecFrames adds the   *)
(* browser's animation frames to a session of one exercise.                *)
(***************************************************************************)
EXTENDS Integers, Sequences, FiniteSets

\* ------------------------------------------------------------------ bounds
\* longest text typed into the free-text input
MaxLen == 2
\* most confetti runs whose frame loops are scheduled at the same time
MaxRuns == 2
\* longest text handed to the matcher
MaxText == 4
\* frame ceiling of one confetti run
FrameCeiling == 140

\* a piece's ttl is TtlBase + floor(random * TtlSpread)
TtlBase == 90
TtlSpread == 60

\* ------------------------------------------------------------------ strings
Chars == {"a", "A", "b", " "}

\* characters matched by \s
IsSpace(c) == c \in {" ", "\t"}

\* String.prototype.toLowerCase, one character
LowerChar(c) == IF c = "A" THEN "a" ELSE IF c = "B" THEN "b" ELSE c

RECURSIVE StripLeft(_)
StripLeft(s) ==
    IF s = <<>> THEN <<>>
    ELSE IF IsSpace(Head(s)) THEN StripLeft(Tail(s)) ELSE s

RECURSIVE StripRight(_)
StripRight(s) ==
    IF s = <<>> THEN <<>>
    ELSE IF IsSpace(s[Len(s)]) THEN StripRight(SubSeq(s, 1, Len(s) - 1)) ELSE s

\* String.prototype.trim
trim(s) == StripRight(StripLeft(s))

\* String.prototype.toLowerCase
toLowerCase(s) == [i \in 1..Len(s) |-> LowerChar(s[i])]

\* s.replace(/\s+/g, " "): every maximal run of whitespace becomes one space
RECURSIVE collapse(_)
collapse(s) ==
    IF s = <<>> THEN <<>>
    ELSE IF IsSpace(Head(s))
         THEN <<" ">> \o collapse(StripLeft(s))
         ELSE <<Head(s)>> \o collapse(Tail(s))

\* normalize without the whitespace replacement
normalizeNoCollapse(s) == toLowerCase(trim(s))

normalize(s) == collapse(toLowerCase(trim(s)))

checkAnswer(user, correct) == normalize(user) = normalize(correct)

\* every text of at most n characters
RECURSIVE StringsUpTo(_)
StringsUpTo(n) ==
    IF n = 0 THEN {<<>>}
    ELSE LET shorter == StringsUpTo(n - 1)
         IN shorter \cup {Append(s, c) : s \in {t \in shorter : Len(t) = n - 1}, c \in Chars}

Typed == StringsUpTo(MaxLen)

\* texts with upper case, blanks and tabs
AnyChars == Chars \cup {"B", "\t"}

RECURSIVE TextsUpTo(_)
TextsUpTo(n) ==
    IF n = 0 THEN {<<>>}
    ELSE LET shorter == TextsUpTo(n - 1)
         IN shorter \cup {Append(s, c) : s \in {t \in shorter : Len(t) = n - 1}, c \in AnyChars}

\* ------------------------------------------------------------------ exercises
Ex(i, ans, ch) == [id |-> i, answer |-> ans, choices |-> ch]

\* the exercise collections the session may be loaded with (ids are unique,
\* a non-empty choice list holds the answer, choices are pairwise distinct)
Pools ==
    { << Ex(1, <<"a">>, <<>>) >>,
      << Ex(1, <<"a">>, << <<"a">>, <<"b">> >>),
         Ex(2, <<"a", "b">>, <<>>) >>,
      << Ex(1, <<"b">>, << <<"a">>, <<"b">>, <<"a", "b">> >>),
         Ex(2, <<"a">>, <<>>),
         Ex(3, <<"b">>, <<>>) >> }

\* one-exercise collections whose answers hold upper case and blanks
MatcherPools ==
    { << Ex(1, <<"a", " ", "b">>, <<>>) >>,
      << Ex(1, <<"A", "b">>, <<>>) >>,
      << Ex(1, <<"b">>, << <<"a">>, <<"b">>, <<"a", "b">> >>) >> }

HasChoices(e) == Len(e.choices) # 0

\* ------------------------------------------------------------------ selector
\* what items[idx] yields past the end of the array
Undefined == [id |-> 0, answer |-> <<>>, choices |-> <<>>]

\* the index rounded up instead of down
RandomIndexCeil(len) == IF len = 0 THEN {0} ELSE 1..len

\* Math.floor(Math.random() * len), Math.random() in [0, 1)
RandomIndex(len) == IF len = 0 THEN {0} ELSE 0..(len - 1)

\* the values pickRandom(items) can return
pickRandom(items) ==
    { IF idx < Len(items) THEN items[idx + 1] ELSE Undefined :
        idx \in RandomIndex(Len(items)) }

\* ------------------------------------------------------------------ state
VARIABLES
    exercises,   \* App: the loaded collection
    current,     \* App: useState current
    value,       \* ExerciseCard: useState value
    checked,     \* ExerciseCard: useState checked
    isCorrect,   \* ExerciseCard: useState isCorrect: "null", "true", "false"
    focus,       \* where the keyboard focus is: "none", "container", "input"
    timer,       \* the focus timeouts that are set and have not fired
    runs,        \* the confetti runs with a frame callback scheduled: frame counters
    surface,     \* the canvas: the pieces drawn on it, each with its frame
    wowSuccess,  \* cardRef has class wow-success
    wowError,    \* containerRef has class wow-error
    rendered,    \* the views committed by the last task, in order
    event,       \* the last task: what it was and which handlers it ran
    loop         \* App.nextRandom while it is on the stack: position and `next`

vars == <<exercises, current, value, checked, isCorrect, focus, timer, runs,
          surface, wowSuccess, wowError, rendered, event, loop>>

\* no call of nextRandom is on the stack
Idle == [pc |-> "idle", next |-> Undefined, retried |-> FALSE]

\* what one render of ExerciseCard shows
View(e, v, c, ic) == [ex |-> e.id, value |-> v, checked |-> c, isCorrect |-> ic]

\* choices.findIndex(c => c === v), -1 when none
RECURSIVE FindFrom(_, _, _)
FindFrom(choices, v, i) ==
    IF i > Len(choices) THEN -1
    ELSE IF choices[i] = v THEN i - 1
    ELSE FindFrom(choices, v, i + 1)

findIndex(choices, v) == FindFrom(choices, v, 1)

\* the record of one task: kind and key of the DOM event, the exercise that was
\* active, the index findIndex gave an arrow key, how often the task ran
\* handleCheck, onNext, shootConfetti and triggerErrorPulse, and how many
\* pending timeouts its effect cleanup cleared
Ev(kind, key, nChecks, nNexts, nConfetti, nPulses) ==
    [kind |-> kind, key |-> key, prev |-> current.id,
     index |-> IF key \in {"ArrowDown", "ArrowUp"} /\ HasChoices(current)
               THEN findIndex(current.choices, value) ELSE -1,
     checks |-> nChecks, nexts |-> nNexts, confetti |-> nConfetti,
     pulses |-> nPulses, cleared |-> 0]

Tri(b) == IF b THEN "true" ELSE "false"

\* the effect's timeout callback: which element it focuses
FocusTarget(e) == IF HasChoices(e) THEN "container" ELSE "input"

\* window.setTimeout in the effect run for exercise e: the pending callback,
\* which closes over e
setTimeout(e) == [by |-> e.id, target |-> FocusTarget(e)]

\* the effect's cleanup without clearTimeout
clearTimeoutMissing(pending, e) == pending

\* the cleanup of the effect run for exercise e: window.clearTimeout(t)
clearTimeout(pending, e) == {t \in pending : t.by # e.id}

\* the effect's dependency list
EffectDeps(e) == <<e.id, Len(e.choices)>>

Init ==
    /\ exercises \in Pools
    /\ current \in pickRandom(exercises)
    /\ value = <<>>
    /\ checked = FALSE
    /\ isCorrect = "null"
    /\ focus = "none"
    /\ timer = {setTimeout(current)}
    /\ runs = <<>>
    /\ surface = {}
    /\ wowSuccess = FALSE
    /\ wowError = FALSE
    /\ rendered = <<View(current, <<>>, FALSE, "null")>>
    /\ event = Ev("mount", "", 0, 0, 0, 0)
    /\ loop = Idle

\* the effect without its setIsCorrect(null)
RenderKeepsIsCorrect(e, v, c, ic, f) ==
    /\ current' = e
    /\ focus' = IF f = "input" /\ HasChoices(e) THEN "none" ELSE f
    /\ isCorrect' = ic
    /\ rendered' = <<View(e, v, c, ic)>>
    /\ IF EffectDeps(e) # EffectDeps(current)
       THEN value' = <<>> /\ checked' = FALSE /\ timer' = clearTimeout(timer, current) \cup {setTimeout(e)}
       ELSE value' = v /\ checked' = c /\ timer' = timer

\* The re-render after a task's batched updates left App with exercise e and the
\* card with (v, c, ic), focus at f.  The card is committed with that state; when
\* the dependency list changed the effect then clears the pending timeout,
\* resets the three state cells, schedules the focus timeout, and the card is
\* committed again.
Render(e, v, c, ic, f) ==
    /\ current' = e
    /\ focus' = IF f = "input" /\ HasChoices(e) THEN "none" ELSE f
    /\ IF EffectDeps(e) # EffectDeps(current)
       THEN /\ value' = <<>>
            /\ checked' = FALSE
            /\ isCorrect' = "null"
            /\ timer' = clearTimeout(timer, current) \cup {setTimeout(e)}
            /\ rendered' = <<View(e, v, c, ic), View(e, <<>>, FALSE, "null")>>
       ELSE /\ value' = v
            /\ checked' = c
            /\ isCorrect' = ic
            /\ timer' = timer
            /\ rendered' = <<View(e, v, c, ic)>>

\* ------------------------------------------------------------------ orchestrator
\* nextRandom without the retry loop
nextRandomNoRetry(cur) ==
    IF Len(exercises) <= 1 THEN {cur} ELSE pickRandom(exercises)

\* App.nextRandom: the exercise App holds after one call made while it held cur
nextRandom(cur) ==
    IF Len(exercises) <= 1 THEN {cur}
    ELSE {next \in pickRandom(exercises) : next.id # cur.id}

\* onNext invoked n times by one task: every call reads the same render's
\* `current`, and the last setCurrent stands
onNext(n) == {picks[n] : picks \in [1..n -> nextRandom(current)]}

\* ------------------------------------------------------------------ card handlers
\* handleCheck that shoots confetti whatever the result
handleCheckAlwaysConfetti(v, e) ==
    LET ok == checkAnswer(v, e.answer)
    IN [isCorrect |-> Tri(ok), checked |-> TRUE,
        confetti |-> 1, pulses |-> IF ok THEN 0 ELSE 1]

\* handleCheck with setChecked(ok) in place of setChecked(true)
handleCheckSetsOk(v, e) ==
    LET ok == checkAnswer(v, e.answer)
    IN [isCorrect |-> Tri(ok), checked |-> ok,
        confetti |-> IF ok THEN 1 ELSE 0, pulses |-> IF ok THEN 0 ELSE 1]

\* handleCheck run on value v for exercise e: the state it sets and the feedback
\* it triggers
handleCheck(v, e) ==
    LET ok == checkAnswer(v, e.answer)
    IN [isCorrect |-> Tri(ok), checked |-> TRUE,
        confetti |-> IF ok THEN 1 ELSE 0, pulses |-> IF ok THEN 0 ELSE 1]

\* handleEnter testing `value` where the code tests `value.trim()`
handleEnterNoTrim(c, v) ==
    IF ~c THEN (IF v # <<>> THEN "check" ELSE "none") ELSE "next"

\* handleEnter testing the value before the checked flag
handleEnterValueFirst(c, v) ==
    IF trim(v) # <<>> THEN "check" ELSE IF c THEN "next" ELSE "none"

\* handleEnter with state (c, v): what it calls
handleEnter(c, v) ==
    IF ~c THEN (IF trim(v) # <<>> THEN "check" ELSE "none") ELSE "next"

\* the Check button's disabled attribute
checkDisabled(v) == trim(v) = <<>>

\* Number(e.key) for the keys that are numbers
KeyNumber == [k \in {"0", "1", "2", "3", "4"} |->
                 CASE k = "0" -> 0 [] k = "1" -> 1 [] k = "2" -> 2
                   [] k = "3" -> 3 [] k = "4" -> 4]

Keys == {"Enter", "ArrowDown", "ArrowUp", "x"} \cup DOMAIN KeyNumber

\* the arrow branch starting before the first choice when none is selected
arrowNextFromNone(choices, v, key) ==
    LET len == Len(choices)
        cur == findIndex(choices, v)
    IN IF key = "ArrowDown" THEN (cur + 1) % len ELSE (cur + len) % len

\* the arrow branch stopping at the ends of the list
arrowNextClamped(choices, v, key) ==
    LET len == Len(choices)
        currentIndex == findIndex(choices, v)
        cur == IF currentIndex >= 0 THEN currentIndex ELSE 0
    IN IF key = "ArrowDown"
       THEN (IF cur + 1 < len THEN cur + 1 ELSE cur)
       ELSE (IF cur > 0 THEN cur - 1 ELSE 0)

\* handleKeyDown, arrow branch: the 0-based index it selects
arrowNext(choices, v, key) ==
    LET len == Len(choices)
        currentIndex == findIndex(choices, v)
        cur == IF currentIndex >= 0 THEN currentIndex ELSE 0
    IN IF key = "ArrowDown" THEN (cur + 1) % len ELSE (cur - 1 + len) % len

\* handleKeyDown counting the digit keys from 0
keyValueFromZero(e, v, key) ==
    IF HasChoices(e)
    THEN IF key \in DOMAIN KeyNumber /\ KeyNumber[key] >= 0
            /\ KeyNumber[key] < Len(e.choices)
         THEN e.choices[KeyNumber[key] + 1]
         ELSE IF key \in {"ArrowDown", "ArrowUp"}
              THEN e.choices[arrowNext(e.choices, v, key) + 1]
              ELSE v
    ELSE v

\* handleKeyDown for a key other than Enter: the value it leaves
keyValue(e, v, key) ==
    IF HasChoices(e)
    THEN IF key \in DOMAIN KeyNumber /\ KeyNumber[key] >= 1
            /\ KeyNumber[key] <= Len(e.choices)
         THEN e.choices[KeyNumber[key]]
         ELSE IF key \in {"ArrowDown", "ArrowUp"}
              THEN e.choices[arrowNext(e.choices, v, key) + 1]
              ELSE v
    ELSE v

\* ------------------------------------------------------------------ canvas
\* the least and the greatest time-to-live a piece can get
Ttls == {TtlBase, TtlBase + TtlSpread - 1}

\* context.clearRect over the whole canvas
clearRect(surf) == {}

\* the pieces a tick draws once it has raised the counter to frame: a piece
\* is skipped when alpha = 1 - life / ttl is not positive
draw(frame) == {[frame |-> frame, ttl |-> t] : t \in {u \in Ttls : frame < u}}

\* the canvas after the tick that raised the counter to frame
paint(surf, frame) ==
    LET drawn == clearRect(surf) \cup draw(frame)
    IN IF frame < FrameCeiling THEN drawn ELSE clearRect(drawn)

\* the canvas after the scheduled callbacks of the runs rs ran in order
RECURSIVE paintAll(_, _)
paintAll(surf, rs) ==
    IF rs = <<>> THEN surf
    ELSE paintAll(paint(surf, Head(rs) + 1), Tail(rs))

\* ------------------------------------------------------------------ tasks
\* shootConfetti n times: each run schedules its own first frame
Shoot(n) == runs' = runs \o [i \in 1..n |-> 0]

\* n calls of handleCheck in one task (same render, same value)
Check(kind, key, n, f) ==
    LET r == handleCheck(value, current)
    IN /\ Len(runs) + n * r.confetti <= MaxRuns
       /\ Render(current, value, r.checked, r.isCorrect, f)
       /\ Shoot(n * r.confetti)
       \* triggerWowSuccess / triggerErrorPulse
       /\ wowSuccess' = (wowSuccess \/ r.confetti > 0)
       /\ wowError' = (r.pulses > 0)
       \* sizing the canvas in shootConfetti clears it
       /\ surface' = IF n * r.confetti > 0 THEN clearRect(surface) ELSE surface
       /\ event' = Ev(kind, key, n, 0, n * r.confetti, n * r.pulses)

\* n calls of onNext in one task
Advance(kind, key, n, f) ==
    \E next \in onNext(n) :
        /\ Render(next, value, checked, isCorrect, f)
        /\ UNCHANGED <<runs, surface, wowSuccess, wowError>>
        /\ event' = [Ev(kind, key, 0, n, 0, 0) EXCEPT !.cleared =
                         IF EffectDeps(next) # EffectDeps(current)
                         THEN Cardinality(timer \ clearTimeout(timer, current))
                         ELSE 0]

\* setValue that also clears the validation state
SetValueResets(kind, key, v, f) ==
    /\ Render(current, v, FALSE, "null", f)
    /\ UNCHANGED <<runs, surface, wowSuccess, wowError>>
    /\ event' = Ev(kind, key, 0, 0, 0, 0)

\* a task that only sets value
SetValue(kind, key, v, f) ==
    /\ Render(current, v, checked, isCorrect, f)
    /\ UNCHANGED <<runs, surface, wowSuccess, wowError>>
    /\ event' = Ev(kind, key, 0, 0, 0, 0)

\* n calls of handleEnter in one task
Enter(kind, n, f) ==
    LET route == handleEnter(checked, value)
    IN CASE route = "check" -> Check(kind, "Enter", n, f)
         [] route = "next" -> Advance(kind, "Enter", n, f)
         [] OTHER -> SetValue(kind, "Enter", value, f)

\* typing or pasting into the free-text input
InputChange ==
    /\ ~HasChoices(current)
    /\ \E s \in Typed \ {value} : SetValue("change", "", s, "input")
    /\ UNCHANGED <<exercises, loop>>

\* clicking a choice button
ChoiceClick ==
    /\ \E i \in 1..Len(current.choices) :
           SetValue("choice", "", current.choices[i], "container")
    /\ UNCHANGED <<exercises, loop>>

\* a key pressed with the focus in the container but not in the input:
\* handleKeyDown
ContainerKeyDown ==
    /\ focus = "container"
    /\ \E key \in Keys :
           IF key = "Enter"
           THEN Enter("keyContainer", 1, focus)
           ELSE SetValue("keyContainer", key, keyValue(current, value, key), focus)
    /\ UNCHANGED <<exercises, loop>>

\* a key pressed in the free-text input: the input's onKeyDown, then the
\* event bubbles to the container's handleKeyDown
InputKeyDown ==
    /\ focus = "input"
    /\ \E key \in Keys :
           IF key = "Enter"
           THEN Enter("keyInput", 2, focus)
           ELSE SetValue("keyInput", key, keyValue(current, value, key), focus)
    /\ UNCHANGED <<exercises, loop>>

\* the Check button
CheckClick ==
    /\ ~checkDisabled(value)
    /\ Check("checkButton", "", 1, "container")
    /\ UNCHANGED <<exercises, loop>>

\* the Siguiente button
NextClick ==
    /\ Advance("nextButton", "", 1, "container")
    /\ UNCHANGED <<exercises, loop>>

\* the effect's zero-delay timeout fires
FocusTimeout ==
    /\ \E t \in timer :
           \* inputRef.current is null while the choice list is shown
           /\ focus' = IF t.target = "input" /\ HasChoices(current)
                        THEN focus ELSE t.target
           /\ timer' = timer \ {t}
    /\ rendered' = <<View(current, value, checked, isCorrect)>>
    /\ event' = Ev("timeout", "", 0, 0, 0, 0)
    /\ UNCHANGED <<exercises, loop, current, value, checked, isCorrect, runs, surface,
                   wowSuccess, wowError>>

\* the user moves the focus (click, Tab)
UserFocus ==
    /\ \E f \in {"none", "container", "input"} \ {focus} :
           /\ f = "input" => ~HasChoices(current)
           /\ focus' = f
    /\ rendered' = <<View(current, value, checked, isCorrect)>>
    /\ event' = Ev("focus", "", 0, 0, 0, 0)
    /\ UNCHANGED <<exercises, loop, current, value, checked, isCorrect, timer, runs,
                   surface, wowSuccess, wowError>>

\* tick, one frame of one run: the counter after it, or -1 when the run
\* schedules no further frame
tickOneMore(frame) == IF frame + 1 <= FrameCeiling THEN frame + 1 ELSE -1

tick(frame) == IF frame + 1 < FrameCeiling THEN frame + 1 ELSE -1

\* one animation frame of the browser: every scheduled frame callback runs,
\* in the order the callbacks were scheduled
AnimationFrame ==
    /\ runs # <<>>
    /\ LET ticked == [i \in 1..Len(runs) |-> tick(runs[i])]
       IN /\ runs' = SelectSeq(ticked, LAMBDA t : t >= 0)
          /\ surface' = paintAll(surface, runs)
    /\ rendered' = <<View(current, value, checked, isCorrect)>>
    /\ event' = Ev("frame", "", 0, 0, 0, 0)
    /\ UNCHANGED <<exercises, loop, current, value, checked, isCorrect, focus, timer,
                   wowSuccess, wowError>>

\* the tasks of the card: user input and the focus timeout
Next ==
    \/ InputChange
    \/ ChoiceClick
    \/ ContainerKeyDown
    \/ InputKeyDown
    \/ CheckClick
    \/ NextClick
    \/ FocusTimeout
    \/ UserFocus

Spec == Init /\ [][Next]_vars

\* the collection is whatever exercises.json holds, the empty array included
InitAnyPool ==
    /\ exercises \in Pools \cup {<<>>}
    /\ current \in pickRandom(exercises)
    /\ value = <<>>
    /\ checked = FALSE
    /\ isCorrect = "null"
    /\ focus = "none"
    /\ timer = IF current = Undefined THEN {} ELSE {setTimeout(current)}
    /\ runs = <<>>
    /\ surface = {}
    /\ wowSuccess = FALSE
    /\ wowError = FALSE
    /\ rendered = IF current = Undefined THEN <<>>
                  ELSE <<View(current, <<>>, FALSE, "null")>>
    /\ event = Ev("mount", "", 0, 0, 0, 0)
    /\ loop = Idle

\* the card reads exercise.id and exercise.choices while it renders: with an
\* undefined exercise the render throws and nothing is mounted
Mounted == current # Undefined

\* the tasks of the card, which exist only while the card is mounted
NextAnyPool ==
    \/ Mounted /\ InputChange
    \/ Mounted /\ ChoiceClick
    \/ Mounted /\ ContainerKeyDown
    \/ Mounted /\ InputKeyDown
    \/ Mounted /\ CheckClick
    \/ Mounted /\ NextClick
    \/ Mounted /\ FocusTimeout
    \/ Mounted /\ UserFocus

SpecAnyPool == InitAnyPool /\ [][NextAnyPool]_vars

\* the user has typed the answer of the only exercise of a one-exercise session
InitFrames ==
    /\ exercises \in {pool \in Pools : Len(pool) = 1}
    /\ current = exercises[1]
    /\ value = current.answer
    /\ checked = FALSE
    /\ isCorrect = "null"
    /\ focus = "input"
    /\ timer = {}
    /\ runs = <<>>
    /\ surface = {}
    /\ wowSuccess = FALSE
    /\ wowError = FALSE
    /\ rendered = <<View(current, value, FALSE, "null")>>
    /\ event = [Ev("change", "", 0, 0, 0, 0) EXCEPT !.prev = current.id]
    /\ loop = Idle

\* the Check button and the browser's animation frames
SpecFrames == InitFrames /\ [][CheckClick \/ AnimationFrame]_vars

\* a one-exercise session in which the focus timeout has fired and the user
\* has entered any text into the free-text input
InitMatcher ==
    /\ exercises \in MatcherPools
    /\ current \in pickRandom(exercises)
    /\ value \in IF HasChoices(current) THEN {<<>>} ELSE TextsUpTo(MaxText)
    /\ checked = FALSE
    /\ isCorrect = "null"
    /\ focus = FocusTarget(current)
    /\ timer = {}
    /\ runs = <<>>
    /\ surface = {}
    /\ wowSuccess = FALSE
    /\ wowError = FALSE
    /\ rendered = <<View(current, value, FALSE, "null")>>
    /\ event = [Ev("change", "", 0, 0, 0, 0) EXCEPT !.prev = current.id]
    /\ loop = Idle

\* checking by button or by Enter, choosing by click or by key
NextMatcher ==
    \/ CheckClick
    \/ ChoiceClick
    \/ ContainerKeyDown
    \/ InputKeyDown

SpecMatcher == InitMatcher /\ [][NextMatcher]_vars

\* ------------------------------------------------------------------ nextRandom, step by step
\* the early return taken for an empty collection only
returnsAtOnceEmptyOnly(items) == Len(items) < 1

\* nextRandom's early return
returnsAtOnce(items) == Len(items) <= 1

\* the indexes pickRandom can draw on the collections
Indexes == UNION {RandomIndex(Len(pool)) : pool \in Pools}

\* Siguiente is clicked and nextRandom starts: it returns at once, or draws
\* its first `next` and reaches the loop test
CallNext ==
    /\ loop.pc = "idle"
    /\ IF returnsAtOnce(exercises)
       THEN /\ Render(current, value, checked, isCorrect, "container")
            /\ event' = Ev("nextButton", "", 0, 1, 0, 0)
            /\ loop' = Idle
       ELSE /\ \E next \in pickRandom(exercises) :
                   loop' = [pc |-> "while", next |-> next, retried |-> FALSE]
            /\ UNCHANGED <<current, value, checked, isCorrect, focus, timer,
                           rendered, event>>
    /\ UNCHANGED <<exercises, runs, surface, wowSuccess, wowError>>

\* the loop test finds the id of the active exercise: the body draws index i
LoopRetry(i) ==
    /\ loop.pc = "while"
    /\ loop.next.id = current.id
    /\ i \in RandomIndex(Len(exercises))
    /\ exercises[i + 1] \in pickRandom(exercises)
    /\ loop' = [loop EXCEPT !.next = exercises[i + 1], !.retried = TRUE]
    /\ UNCHANGED <<exercises, current, value, checked, isCorrect, focus, timer,
                   runs, surface, wowSuccess, wowError, rendered, event>>

\* the loop test finds another id: setCurrent(next), and the task ends with
\* the re-render
LoopExit ==
    /\ loop.pc = "while"
    /\ loop.next.id # current.id
    /\ Render(loop.next, value, checked, isCorrect, "container")
    /\ event' = [Ev("nextButton", "", 0, 1, 0, 0) EXCEPT !.cleared =
                     IF EffectDeps(loop.next) # EffectDeps(current)
                     THEN Cardinality(timer \ clearTimeout(timer, current))
                     ELSE 0]
    /\ loop' = [Idle EXCEPT !.retried = loop.retried]
    /\ UNCHANGED <<exercises, runs, surface, wowSuccess, wowError>>

\* the Siguiente button with nextRandom run statement by statement; typing
\* and checking happen between the calls
NextAdvance ==
    \/ CallNext
    \/ \E i \in Indexes : LoopRetry(i)
    \/ LoopExit
    \/ loop.pc = "idle" /\ InputChange
    \/ loop.pc = "idle" /\ CheckClick

\* Math.random keeps every index possible, and a running call is not suspended
SpecAdvance ==
    /\ Init
    /\ [][NextAdvance]_vars
    /\ WF_vars(LoopExit)
    /\ \A i \in Indexes : WF_vars(LoopRetry(i))

\* ------------------------------------------------------------------ claims
Shown == Len(current.choices)

\* C1: once an exercise is checked, a later check of the same exercise changes
\* nothing: isCorrect keeps its value and no animation or error pulse is triggered.
C1_RecheckIsNoOp ==
    [][(checked /\ current'.id = current.id)
        => (isCorrect' = isCorrect /\ event'.confetti = 0 /\ event'.pulses = 0)]_vars

\* C2: while the trimmed value is empty no task runs the check action or turns
\* checked true, and Enter on an unchecked exercise leaves checked, isCorrect
\* and value as they are.
C2_EmptyNeverChecks ==
    [][trim(value) = <<>>
        => /\ event'.checks = 0
           /\ ~checked => ~checked'
           /\ (~checked /\ event'.key = "Enter")
                => (value' = value /\ isCorrect' = isCorrect /\ checked' = checked)]_vars

\* C2 witness: Enter was pressed on an unchecked exercise whose value is blank.
C2_Witness ==
    /\ event.key = "Enter"
    /\ value = <<" ">>
    /\ ~checked
    /\ isCorrect = "null"

\* C3: no committed view shows a newly activated exercise together with
\* checked = true, a known isCorrect or a left-over value.
C3_AtomicReset ==
    \A i \in 1..Len(rendered) :
        rendered[i].ex # event.prev
            => /\ ~rendered[i].checked
               /\ rendered[i].isCorrect = "null"
               /\ rendered[i].value = <<>>

\* C4: at most one confetti run has a frame callback scheduled.
C4_OneRunInFlight == Len(runs) <= 1

\* C5: after any task that ran the advance callback, checked is false, isCorrect
\* is unknown and the value is empty.
C5_AdvanceResets ==
    event.nexts > 0 => (~checked /\ isCorrect = "null" /\ value = <<>>)

\* C6: with more than one exercise loaded, a task that ran the advance callback
\* (once or twice) leaves an exercise whose id differs from the one before it.
C6_NextDiffers ==
    (Len(exercises) > 1 /\ event.nexts > 0) => current.id # event.prev

\* C6 witness: one key press ran the advance callback twice.
C6_Witness ==
    /\ Len(exercises) > 1
    /\ event.nexts = 2
    /\ current.id # event.prev

\* C7 as stated: with 3 choices and none selected ArrowDown selects index 0; with
\* index 0 selected ArrowDown selects index 1 and ArrowUp selects index 2.
C7_ArrowFromNoneSelectsFirst ==
    [][(Shown = 3 /\ event'.kind = "keyContainer")
        => /\ (value = <<>> /\ event'.key = "ArrowDown")
                => value' = current.choices[1]
           /\ (value = current.choices[1] /\ event'.key = "ArrowDown")
                => value' = current.choices[2]
           /\ (value = current.choices[1] /\ event'.key = "ArrowUp")
                => value' = current.choices[3]]_vars

\* C7 amended: with 3 choices and none selected ArrowDown selects index 1 (no
\* selection counts as index 0 before the move) and a further ArrowDown selects
\* index 2; with index 0 selected ArrowDown selects index 1 and ArrowUp
\* selects index 2.
C7_ArrowFromNoneSelectsSecond ==
    [][(Shown = 3 /\ event'.kind = "keyContainer")
        => /\ (value = <<>> /\ event'.key = "ArrowDown")
                => value' = current.choices[2]
           /\ (value = current.choices[2] /\ event'.key = "ArrowDown")
                => value' = current.choices[3]
           /\ (value = current.choices[1] /\ event'.key = "ArrowDown")
                => value' = current.choices[2]
           /\ (value = current.choices[1] /\ event'.key = "ArrowUp")
                => value' = current.choices[3]]_vars

\* C7 witness: ArrowDown was pressed with 3 choices and none selected.
C7_Witness ==
    /\ Shown = 3
    /\ event.key = "ArrowDown"
    /\ event.index = -1
    /\ value = current.choices[2]

\* C8: Enter on an unchecked exercise with a non-blank value checks it; on an
\* unchecked exercise with a blank value it changes nothing; on a checked
\* exercise it runs the advance callback and no check.
C8_EnterRouting ==
    [][event'.key = "Enter"
        => /\ (~checked /\ trim(value) # <<>>)
                => /\ checked'
                   /\ isCorrect' = Tri(checkAnswer(value, current.answer))
                   /\ event'.checks > 0
                   /\ event'.nexts = 0
                   /\ UNCHANGED <<current, value>>
           /\ (~checked /\ trim(value) = <<>>)
                => /\ event'.checks = 0
                   /\ event'.nexts = 0
                   /\ UNCHANGED <<current, value, checked, isCorrect, runs,
                                  wowSuccess, wowError>>
           /\ checked
                => /\ event'.nexts > 0
                   /\ event'.checks = 0
                   /\ UNCHANGED <<runs, wowSuccess, wowError>>
                   /\ current' \in nextRandom(current)]_vars

\* C8 witness: Enter on a checked exercise has advanced to another exercise.
C8_Witness ==
    /\ event.key = "Enter"
    /\ event.nexts > 0
    /\ event.checks = 0
    /\ current.id # event.prev
    /\ rendered[1].checked

\* C9: a confetti run starts in a task exactly when the task ran a check whose
\* result is correct; a check whose result is wrong triggers the error pulse.
C9_ConfettiOnlyOnCorrectCheck ==
    [][LET ok == checkAnswer(value, current.answer)
       IN /\ runs' = runs \o [i \in 1..event'.confetti |-> 0]
          /\ event'.confetti > 0 <=> (event'.checks > 0 /\ ok)
          /\ event'.confetti > 0 => isCorrect' = "true"
          /\ (event'.checks > 0 /\ ~ok)
                => (event'.pulses > 0 /\ wowError' /\ isCorrect' = "false")
          /\ event'.checks = 0 => event'.pulses = 0]_vars

\* C9 witness: a wrong answer was checked: error pulse, no confetti run.
C9_Witness ==
    /\ event.checks > 0
    /\ isCorrect = "false"
    /\ event.pulses > 0
    /\ event.confetti = 0
    /\ wowError
    /\ runs = <<>>

\* C10: checked goes from true to false only in a step that changes the active
\* exercise's id.
C10_CheckedResetsOnlyOnChange ==
    [][(checked /\ ~checked') => current'.id # current.id]_vars

\* C10 witness: a checked exercise was replaced and checked is false again.
C10_Witness ==
    /\ rendered[1].checked
    /\ ~checked
    /\ current.id # event.prev


\* C11: checked is true exactly when isCorrect is known, in every state and in
\* every committed view.
C11_CheckedIffKnown ==
    /\ checked <=> isCorrect # "null"
    /\ \A i \in 1..Len(rendered) :
           rendered[i].checked <=> rendered[i].isCorrect # "null"

\* C11 witness: a checked exercise was replaced: both cells were set by the
\* check and both are clear again.
C11_Witness ==
    /\ Len(rendered) = 2
    /\ rendered[1].checked
    /\ rendered[1].isCorrect = "false"
    /\ ~checked
    /\ isCorrect = "null"

\* C12: on a checked exercise a task that runs neither the check nor the
\* advance callback (typing, a choice click, a digit or arrow key) leaves
\* checked and isCorrect as they are.
C12_EditKeepsVerdict ==
    [][(checked /\ event'.checks = 0 /\ event'.nexts = 0)
        => (checked' /\ isCorrect' = isCorrect)]_vars

\* C12 witness: after a correct check the text was replaced by a wrong one and
\* the verdict still reads correct.
C12_Witness ==
    /\ checked
    /\ isCorrect = "true"
    /\ event.kind = "change"
    /\ ~checkAnswer(value, current.answer)


\* C13: at most one focus timeout is pending, it is the one set for the active
\* exercise, and a timeout that has fired has focused the container when the
\* active exercise has choices and the input otherwise.
C13_OneFreshFocusTimeout ==
    /\ Cardinality(timer) <= 1
    /\ \A t \in timer : t.by = current.id /\ t.target = FocusTarget(current)
    /\ event.kind = "timeout" => focus = FocusTarget(current)

\* C13 witness: the exercise changed while a focus timeout was pending: the
\* cleanup cleared it and only the new exercise's timeout is pending.
C13_Witness ==
    /\ event.cleared = 1
    /\ current.id # event.prev
    /\ timer = {setTimeout(current)}


\* C14: a scheduled run has executed fewer than 140 frames; a frame step runs
\* one frame of every scheduled run and a run schedules no further frame
\* exactly after its 140th, whatever time-to-live its pieces have left; the
\* canvas holds only pieces of the frame drawn last and is clear when no run is
\* scheduled.
C14_RunEndsAfter140Frames ==
    [][/\ \A i \in 1..Len(runs') : runs'[i] \in 0..(FrameCeiling - 1)
       /\ event'.kind = "frame" =>
            /\ runs' = SelectSeq([i \in 1..Len(runs) |-> runs[i] + 1],
                                 LAMBDA c : c # FrameCeiling)
            /\ \A p \in surface' : p.frame = runs[Len(runs)] + 1
            /\ surface' = {} <=> runs[Len(runs)] + 1 = FrameCeiling
       /\ runs' = <<>> => surface' = {}]_vars

\* C14 witness: the last scheduled run has executed its 140th frame while a
\* piece had time-to-live left: the canvas is clear and no frame is scheduled.
C14_Witness ==
    /\ event.kind = "frame"
    /\ runs = <<>>
    /\ surface = {}
    /\ \E t \in Ttls : t > FrameCeiling


\* C15: pickRandom never returns an undefined item, whatever collection it is
\* given, and App never holds an undefined active exercise.
C15_NoUndefinedExercise ==
    /\ Undefined \notin pickRandom(exercises)
    /\ current # Undefined


\* upper-casing, one character and a text
UpperChar(c) == IF c = "a" THEN "A" ELSE IF c = "b" THEN "B" ELSE c
toUpperCase(s) == [i \in 1..Len(s) |-> UpperChar(s[i])]

\* s with a tab put after every whitespace character
RECURSIVE Stretch(_)
Stretch(s) ==
    IF s = <<>> THEN <<>>
    ELSE IF IsSpace(Head(s)) THEN <<Head(s), "\t">> \o Stretch(Tail(s))
         ELSE <<Head(s)>> \o Stretch(Tail(s))

\* the lower-cased words of s: its maximal runs of non-whitespace characters
RECURSIVE LowerWords(_)
LowerWords(s) ==
    LET t == StripLeft(s)
    IN IF t = <<>> THEN <<>>
       ELSE LET n == CHOOSE k \in 1..Len(t) :
                        /\ \A i \in 1..k : ~IsSpace(t[i])
                        /\ k = Len(t) \/ IsSpace(t[k + 1])
            IN <<[i \in 1..n |-> LowerChar(t[i])]>>
                   \o LowerWords(SubSeq(t, n + 1, Len(t)))

\* C16: the matcher accepts a text against itself, against its upper-cased
\* form, against itself padded with whitespace and with every internal
\* whitespace repeated; it accepts the value against the answer exactly when
\* both have the same lower-cased words; a check sets isCorrect to that
\* result, so a checked choice is correct exactly when it is the answer.
C16_VerdictIsMatcher ==
    LET same == LowerWords(value) = LowerWords(current.answer)
    IN /\ checkAnswer(value, value)
       /\ checkAnswer(toUpperCase(value), value)
       /\ checkAnswer(<<" ">> \o value \o <<"\t", " ">>, value)
       /\ checkAnswer(Stretch(value), value)
       /\ checkAnswer(value, current.answer) <=> same
       /\ event.checks > 0 => isCorrect = Tri(same)
       /\ (event.checks > 0 /\ HasChoices(current))
             => (isCorrect = "true" <=> value = current.answer)

\* C16 witness: a text that differs from the answer in case and whitespace
\* was checked and found correct.
C16_Witness ==
    /\ event.checks > 0
    /\ value = <<"A", "\t", " ", "B">>
    /\ current.answer = <<"a", " ", "b">>
    /\ isCorrect = "true"


\* C17: on a non-empty collection pickRandom draws an index in 0..length-1 and
\* can return every element of the collection and nothing else (the one
\* element of a collection of one); the active exercise is always one of them.
C17_PickIsPoolElement ==
    LET n == Len(exercises)
        pool == {exercises[i] : i \in 1..n}
    IN n > 0 =>
         /\ RandomIndex(n) = 0..(n - 1)
         /\ pickRandom(exercises) = pool
         /\ n = 1 => pickRandom(exercises) = {exercises[1]}
         /\ current \in pool
         /\ \A next \in nextRandom(current) : next \in pool

\* C17 witness: the last element of a collection of three was picked at mount.
C17_Witness ==
    /\ event.kind = "mount"
    /\ Len(exercises) = 3
    /\ current = exercises[3]


\* the value after n ArrowDown keys pressed on the choice list e shows
RECURSIVE Downs(_, _, _)
Downs(e, v, n) ==
    IF n = 0 THEN v ELSE Downs(e, keyValue(e, v, "ArrowDown"), n - 1)

\* C18: with the choice at 0-based index i of N selected, ArrowDown selects
\* index (i + 1) mod N and ArrowUp index (i - 1 + N) mod N; ArrowUp after
\* ArrowDown and N ArrowDown keys give the selection back; without a choice
\* list an arrow key leaves the value as it is.
C18_ArrowsWrapAround ==
    [][event'.key \in {"ArrowDown", "ArrowUp"} =>
         LET N == Len(current.choices)
         IN /\ N = 0 => value' = value
            /\ \A i \in 0..(N - 1) : current.choices[i + 1] = value =>
                 /\ event'.key = "ArrowDown"
                       => value' = current.choices[((i + 1) % N) + 1]
                 /\ event'.key = "ArrowUp"
                       => value' = current.choices[((i - 1 + N) % N) + 1]
                 /\ keyValue(current, keyValue(current, value, "ArrowDown"),
                              "ArrowUp") = value
                 /\ Downs(current, value, N) = value
            /\ UNCHANGED <<current, checked, isCorrect>>]_vars

\* C18 witness: ArrowUp on the first of three choices selected the last one.
C18_Witness ==
    /\ event.key = "ArrowUp"
    /\ event.index = 0
    /\ Len(current.choices) = 3
    /\ value = current.choices[3]


C20_EnterHandledOnce ==
    event.key = "Enter" =>
        /\ event.checks <= 1
        /\ event.nexts <= 1
        /\ event.confetti <= 1
        /\ event.pulses <= 1


\* C21: nextRandom never enters its loop when at most one exercise is loaded
\* (the empty collection included) and leaves the active exercise as it is;
\* with more exercises a call that has reached the loop eventually leaves
\* it and installs an exercise with another id.
C21_AdvanceTerminates ==
    /\ [](Len(exercises) <= 1 => loop.pc = "idle")
    /\ [](returnsAtOnce(<<>>))
    /\ [][(event'.nexts > 0 /\ Len(exercises) <= 1) => current' = current]_vars
    /\ (loop.pc = "while")
          ~> (loop.pc = "idle" /\ event.nexts = 1 /\ current.id # event.prev)

\* C21 witness: a call on three exercises drew the active exercise again,
\* retried, and has installed another exercise.
C21_Witness ==
    /\ loop.pc = "idle"
    /\ loop.retried
    /\ Len(exercises) = 3
    /\ event.nexts = 1
    /\ current.id # event.prev

====
